---- MODULE Spec2Model ----
(***************************************************************************)
(* swiftide-tutorial: the ingestion pipelines (index_markdown, index_code, *)
(* the two index_all) and the query functions, as state machines.          *)
(*                                                                         *)
(* A pipeline is a stream of Result<Node>: every stage consumes units from *)
(* the channel before it and emits units into the channel after it.  The  *)
(* stages of one pipeline run concurrently, so every stage action below   *)
(* may fire whenever its input channel holds a unit.                       *)
(***************************************************************************)
EXTENDS Naturals, Integers, Sequences, FiniteSets, Bags, TLC

(* ------------------------------ bounds -------------------------------- *)

\* Files under the root directory.
MaxItems == 2
\* External calls (chunk, enrich, embed, store) that fail.
MaxFaults == 1
\* Runs of a pipeline over the directory, one after the other.
MaxRuns == 2
\* then_in_batch(50, ..) / then_in_batch(100, ..), scaled down.
BatchSize == 2

ItemIds == 1..MaxItems

(* --------------------------- configuration ---------------------------- *)

Pipes == {"index_markdown", "index_code", "index_all", "ragas"}
Branches == {"md", "code"}

\* Content lengths of the files: below the minimum and inside the range for a
\* markdown file, inside the range and above the maximum of the tutorial
\* pipelines for a code file.
Lens(ext) == IF ext = "md" THEN {40, 300} ELSE {300, 1100}

ChunkMin == 50

\* The range of ragas (50..2048) used in every pipeline.
ChunkMaxExclDoubled(p) == 2048

\* The end of the Rust range 50..1024 (50..2048 in ragas): exclusive.
ChunkMaxExcl(p) == IF p = "ragas" THEN 2048 ELSE 1024

\* FileLoader::with_extensions: the extensions one pipeline loads.
Extensions(p) ==
    CASE p = "index_markdown" -> {"md"}
      [] p = "index_code" -> {"rs"}
      [] OTHER -> {"rs", "md"}

\* No pipeline with a filter_cached stage.
HasCacheNowhere(p) == FALSE

\* filter_cached(Redis) is a stage of index_all (indexing-and-querying-code) only.
HasCache(p) == p = "index_all"

\* split_by / merge are stages of the two index_all.
HasSplit(p) == p \in {"index_all", "ragas"}

\* log_errors().filter_errors() precede the store in ragas only.
HasFilterErrors(p) == p = "ragas"

\* main of ragas calls force_delete_qdrant_collection before index_all.
HasForceDelete(p) == p = "ragas"

(* ------------------------------- units -------------------------------- *)

\* A unit of the stream: Ok(node) or Err.  idx 0 is the whole file, idx k > 0
\* its k-th chunk; vec 0 is "no embedding yet".
OkUnit(i, k, n) == [ok |-> TRUE, item |-> i, idx |-> k, len |-> n, meta |-> FALSE, vec |-> 0]
ErrUnit(i, k) == [ok |-> FALSE, item |-> i, idx |-> k, len |-> 0, meta |-> FALSE, vec |-> 0]

VARIABLES
    pipe,        \* the pipeline that runs
    featChunk,   \* cfg!(feature = "chunk")     (ragas; TRUE elsewhere)
    featMeta,    \* cfg!(feature = "metadata")  (ragas; TRUE elsewhere)
    files,       \* the directory: ItemIds -> [ok, ext, len]
    cacheUp,     \* the Redis server answers
    cache,       \* the fingerprints the Redis cache holds
    cache0,      \* the fingerprints it held when the run started
    status,      \* "setup" | "running" | "done" | "aborted" | "setup_failed"
    nextItem,    \* the next file the loader yields
    brIn,        \* split_by -> then_chunk, per branch
    brMid,       \* then_chunk -> then(MetadataQA..), per branch
    brOut,       \* then(MetadataQA..) -> merge -> then_in_batch, per branch
    buf,         \* the batch then_in_batch is filling
    embedded,    \* then_in_batch -> (filter_errors ->) then_store_with
    store,       \* the Qdrant collection
    faults,      \* failed external calls so far
    routes,      \* per item, how often split_by sent it to each branch
    branchLog,   \* bag of the units the two branches emitted
    mergeLog,    \* bag of the units merge emitted
    enrichLog,   \* the units MetadataQA.. was called on
    batchLog,    \* every batch handed to Embed, with its outcome
    dupDropped,  \* the units filter_cached dropped
    errDropped,  \* the units filter_errors dropped
    chunkLog,    \* the chunks then_chunk made, per item it has chunked
    cause,       \* what ended the run early: "none" | "stream" | "store"
    run,         \* which run over the directory this is: 1, 2, ..
    collExists,  \* the Qdrant collection exists
    lastWrite    \* per point id, the record last written to the collection

ivars == <<pipe, featChunk, featMeta, files, cacheUp, cache, cache0, status,
           nextItem, brIn, brMid, brOut, buf, embedded,
           store, faults, routes, branchLog, mergeLog, enrichLog,
           batchLog, dupDropped, errDropped, chunkLog, cause, run, collExists,
           lastWrite>>

\* The state of a query run.
VARIABLES
    prog,               \* which query() runs
    recordGroundTruth,  \* args.record_ground_truth
    collection,         \* the records of the Qdrant collection
    truth0,             \* the ground truths loaded with the dataset
    qpc,                \* "querying" | "ok" | "err": where query() is
    qst,                \* per question: raw, subq, embedded, retrieved, answered, failed
    qtext,              \* per question: the current (transformed) query text
    qvec,               \* per question: the embedding searched with
    docs,               \* per question: the records the search returned
    prompt,             \* per question: what the answering prompt was built from
    answer,             \* per question: the completion
    dataset,            \* the evaluator: per question [context, answer, ground_truth]
    qfaults             \* failed external calls so far

qvars == <<prog, recordGroundTruth, collection, truth0, qpc, qst, qtext, qvec,
           docs, prompt, answer, dataset, qfaults>>

(* ------------------------------ helpers ------------------------------- *)

\* The fingerprint of a loaded node: a hash of its path and its content.
Fingerprint(i, f) == <<i, f.ext, f.len>>

\* A constructor that connects, and so fails when the server is away.
RedisTryFromUrlConnects(url, up) == up

\* Redis::try_from_url parses the URL and builds the client; it does not connect.
RedisTryFromUrl(url, up) == url = "redis://localhost:6379"

\* NodeCache::get: a failed lookup is "not cached".
CacheGet(up, c, fp) == up /\ fp \in c

\* NodeCache::set: a failed write leaves the cache as it is.
CacheSet(up, c, fp) == IF up THEN c \cup {fp} ELSE c

\* node.path.extension(): Some(ext) or None.
PathExtension(u) == files[u.item].ext

\* A closure that sends what failed to load to 'code'.
SplitPredicateErrToCode(okay, ext) == okay /\ (ext = "none" \/ ext = "md")

\* The closure handed to split_by: TRUE is 'markdown', FALSE is 'code'.
SplitPredicate(okay, ext) ==
    IF ~okay THEN TRUE
    ELSE IF ext = "none" THEN TRUE ELSE ext = "md"

RECURSIVE SplitLens(_, _)
\* The pieces a text of n characters is cut into, none of hi characters or more.
SplitLens(n, hi) ==
    IF n < hi THEN <<n>> ELSE <<hi - 1>> \o SplitLens(n - (hi - 1), hi)

\* The chunks of a text of n characters under the range lo..hi: the pieces,
\* with their offsets, that are not shorter than lo.
ChunkLens(n, lo, hi) ==
    LET ps == SplitLens(n, hi)
    IN {<<k, ps[k]>> : k \in {j \in 1..Len(ps) : ps[j] >= lo}}

\* The vector the embedding model returns for one chunk (its text and metadata).
Vector(u) == 100 * u.item + 10 * u.idx + (IF u.meta THEN 1 ELSE 0) + 1

\* The vectors in the reverse order of the texts.
EmbedBatchReversed(b) == [k \in 1..Len(b) |-> Vector(b[Len(b) + 1 - k])]

\* EmbeddingModel::embed on the texts of a batch: one vector per text, in order.
EmbedBatch(b) == [k \in 1..Len(b) |-> Vector(b[k])]

\* Qdrant upsert: the point id is derived from the node (path and chunk).
PointId(u) == <<u.item, u.idx>>
Point(u) == [id |-> PointId(u), vec |-> u.vec, len |-> u.len, meta |-> u.meta]

\* A store that adds a point and keeps the one it had under the same id.
UpsertAppends(s, u) == s \cup {Point(u)}

Upsert(s, u) == {r \in s : r.id # PointId(u)} \cup {Point(u)}

\* client().delete_collection(COLLECTION_NAME): an error when there is none.
DeleteCollection(exists) == IF exists THEN "ok" ELSE "err"

\* A force delete that returns what delete_collection returned.
ForceDeletePropagates(exists) == DeleteCollection(exists)

\* force_delete_qdrant_collection: let _ = ..delete_collection(..).await; Ok(())
ForceDeleteQdrantCollection(exists) ==
    IF DeleteCollection(exists) \in {"ok", "err"} THEN "ok" ELSE "err"

Range(s) == {s[k] : k \in 1..Len(s)}

\* Everything upstream of then_in_batch has drained.
UpstreamEnded ==
    /\ nextItem > MaxItems
    /\ \A b \in Branches : brIn[b] = {} /\ brMid[b] = {} /\ brOut[b] = {}

\* A batching stage that hands on whatever it holds.
BatchReadyAnyTime(b, ended) == TRUE

\* then_in_batch: the batch b goes to the transformer when it is full, or when
\* the stream before the stage has ended.
BatchReady(b, ended) == Len(b) = BatchSize \/ ended

(* -------------------------------- Init -------------------------------- *)

FileKinds ==
    UNION {[ok : {TRUE}, ext : {e}, len : Lens(e)] : e \in {"md", "rs"}}
        \cup [ok : {FALSE}, ext : {"md", "rs"}, len : {0}]

IndexInit ==
    /\ pipe \in Pipes
    /\ featChunk \in BOOLEAN /\ featMeta \in BOOLEAN
    /\ (pipe # "ragas" => featChunk /\ featMeta)
    /\ files \in [ItemIds -> FileKinds]
    /\ cacheUp \in BOOLEAN
    /\ (pipe # "index_all" => cacheUp)
    /\ cache0 \in SUBSET {Fingerprint(i, files[i]) : i \in {j \in ItemIds : files[j].ok}}
    /\ (~(pipe = "index_all" /\ cacheUp) => cache0 = {})
    /\ cache = cache0
    /\ status = "setup"
    /\ nextItem = 1
    /\ embedded = {}
    /\ brIn = [b \in Branches |-> {}]
    /\ brMid = [b \in Branches |-> {}]
    /\ brOut = [b \in Branches |-> {}]
    /\ buf = <<>>
    /\ store = {}
    /\ faults = 0
    /\ routes = [i \in ItemIds |-> [md |-> 0, code |-> 0]]
    /\ branchLog = EmptyBag /\ mergeLog = EmptyBag
    /\ enrichLog = {} /\ batchLog = {} /\ dupDropped = {} /\ errDropped = {}
    /\ chunkLog = <<>>
    /\ cause = "none"
    /\ run = 1
    /\ collExists = FALSE
    /\ lastWrite = <<>>

(* ------------------------------ actions ------------------------------- *)

\* Before the stream runs.  main of ragas: force_delete_qdrant_collection(..)?
\* and then index_all.  index_all of indexing-and-querying-code:
\* Redis::try_from_url(..)? returns early when the client cannot be built.
\* run() creates the collection when there is none.
Setup ==
    /\ status = "setup"
    /\ LET deleted == HasForceDelete(pipe)
           okay == /\ deleted => ForceDeleteQdrantCollection(collExists) = "ok"
                   /\ HasCache(pipe) =>
                         RedisTryFromUrl("redis://localhost:6379", cacheUp)
       IN /\ status' = IF okay THEN "running" ELSE "setup_failed"
          /\ store' = IF deleted THEN {} ELSE store
          /\ lastWrite' = IF deleted THEN <<>> ELSE lastWrite
          /\ collExists' = IF okay THEN TRUE ELSE collExists /\ ~deleted
    /\ UNCHANGED <<pipe, featChunk, featMeta, files, cacheUp, cache, cache0,
                   nextItem, brIn, brMid, brOut, buf, embedded, faults,
                   routes, branchLog, mergeLog, enrichLog, batchLog,
                   dupDropped, errDropped, chunkLog, cause, run, qvars>>

\* FileLoader: the files with one of the extensions, each as Ok(node) or as the
\* error of reading it.  What the loader yields for file i: nothing or a unit.
FileLoader(p, i) ==
    IF files[i].ext \notin Extensions(p) THEN {}
    ELSE IF files[i].ok THEN {OkUnit(i, 0, files[i].len)}
    ELSE {ErrUnit(i, 0)}

\* filter_cached on one unit: is it one the cache knows?  An Err is not looked
\* up, and a pipeline without the stage drops nothing.
CacheHit(p, u) ==
    /\ HasCache(p)
    /\ u.ok
    /\ CacheGet(cacheUp, cache, Fingerprint(u.item, files[u.item]))

\* The branch split_by sends a unit to.  index_markdown and index_code have one
\* chain of stages each, which is the one branch their units take.
BranchOf(u) ==
    IF HasSplit(pipe)
    THEN IF SplitPredicate(u.ok, PathExtension(u)) THEN "md" ELSE "code"
    ELSE IF pipe = "index_markdown" THEN "md" ELSE "code"

\* The head of the stream.  It is lazy: the task split_by spawns (the first
\* stage, where there is no split) asks for the next unit, the loader reads the
\* next file, filter_cached drops it or writes it to the cache and passes it,
\* and the predicate names its branch.
Pull ==
    /\ status = "running"
    /\ nextItem <= MaxItems
    /\ nextItem' = nextItem + 1
    /\ LET in == FileLoader(pipe, nextItem)
           hit == {u \in in : CacheHit(pipe, u)}
           pass == in \ hit
       IN /\ dupDropped' = dupDropped \cup hit
          /\ cache' = IF \E u \in pass : HasCache(pipe) /\ u.ok
                      THEN CacheSet(cacheUp, cache,
                                    Fingerprint(nextItem, files[nextItem]))
                      ELSE cache
          /\ brIn' = [b \in Branches |-> brIn[b] \cup {u \in pass : BranchOf(u) = b}]
          /\ routes' = [routes EXCEPT ![nextItem] =
                          [md |-> @.md + Cardinality({u \in pass : BranchOf(u) = "md"}),
                           code |-> @.code + Cardinality({u \in pass : BranchOf(u) = "code"})]]
    /\ UNCHANGED <<pipe, featChunk, featMeta, files, cacheUp, cache0, status,
                   brMid, brOut, buf, embedded, store, faults, branchLog,
                   mergeLog, enrichLog, batchLog, errDropped, chunkLog,
                   cause, run, collExists, lastWrite, qvars>>

\* then_chunk(ChunkMarkdown / ChunkCode with the range): a node becomes its
\* chunks; an Err passes; without the "chunk" feature ragas has no such stage.
Chunk(b, u) ==
    /\ status = "running"
    /\ u \in brIn[b]
    /\ brIn' = [brIn EXCEPT ![b] = @ \ {u}]
    /\ LET out == IF ~u.ok \/ ~featChunk THEN {u}
                  ELSE {OkUnit(u.item, c[1], c[2]) :
                           c \in ChunkLens(u.len, ChunkMin, ChunkMaxExcl(pipe))}
       IN /\ brMid' = [brMid EXCEPT ![b] = @ \cup out]
          /\ chunkLog' = IF u.ok /\ featChunk
                         THEN (u.item :> out) @@ chunkLog ELSE chunkLog
    /\ UNCHANGED <<pipe, featChunk, featMeta, files, cacheUp, cache, cache0,
                   status, nextItem, brOut, buf, embedded, store, faults,
                   routes, branchLog, mergeLog, enrichLog, batchLog,
                   dupDropped, errDropped, cause, run, collExists, lastWrite,
                   qvars>>

\* then_chunk, the chunker failing on one node: the node becomes an Err.
ChunkFail(b, u) ==
    /\ status = "running"
    /\ u \in brIn[b] /\ u.ok /\ featChunk
    /\ faults < MaxFaults
    /\ faults' = faults + 1
    /\ brIn' = [brIn EXCEPT ![b] = @ \ {u}]
    /\ brMid' = [brMid EXCEPT ![b] = @ \cup {ErrUnit(u.item, 0)}]
    /\ UNCHANGED <<pipe, featChunk, featMeta, files, cacheUp, cache, cache0,
                   status, nextItem, brOut, buf, embedded, store, routes,
                   branchLog, mergeLog, enrichLog, batchLog, dupDropped,
                   errDropped, chunkLog, cause, run, collExists, lastWrite,
                   qvars>>

\* then(MetadataQAText / MetadataQACode): one prompt per chunk, whose answer is
\* added to the metadata of the chunk; an Err passes; without the "metadata"
\* feature ragas has no such stage.
Enrich(b, u) ==
    /\ status = "running"
    /\ u \in brMid[b]
    /\ brMid' = [brMid EXCEPT ![b] = @ \ {u}]
    /\ LET called == u.ok /\ featMeta
           out == IF called THEN [u EXCEPT !.meta = TRUE] ELSE u
       IN /\ brOut' = [brOut EXCEPT ![b] = @ \cup {out}]
          /\ branchLog' = branchLog (+) SetToBag({out})
          /\ enrichLog' = IF called THEN enrichLog \cup {u} ELSE enrichLog
    /\ UNCHANGED <<pipe, featChunk, featMeta, files, cacheUp, cache, cache0,
                   status, nextItem, brIn, buf, embedded, store, faults,
                   routes, mergeLog, batchLog, dupDropped, errDropped,
                   chunkLog, cause, run, collExists, lastWrite, qvars>>

\* then(MetadataQA..), the prompt failing: the chunk becomes an Err.
EnrichFail(b, u) ==
    /\ status = "running"
    /\ u \in brMid[b] /\ u.ok /\ featMeta
    /\ faults < MaxFaults
    /\ faults' = faults + 1
    /\ brMid' = [brMid EXCEPT ![b] = @ \ {u}]
    /\ brOut' = [brOut EXCEPT ![b] = @ \cup {ErrUnit(u.item, u.idx)}]
    /\ branchLog' = branchLog (+) SetToBag({ErrUnit(u.item, u.idx)})
    /\ enrichLog' = enrichLog \cup {u}
    /\ UNCHANGED <<pipe, featChunk, featMeta, files, cacheUp, cache, cache0,
                   status, nextItem, brIn, buf, embedded, store, routes,
                   mergeLog, batchLog, dupDropped, errDropped, chunkLog,
                   cause, run, collExists, lastWrite, qvars>>

\* A merge that reads the markdown branch and forwards nothing of it.
MergeLosesMarkdown(b, u) ==
    /\ status = "running"
    /\ u \in brOut[b]
    /\ u.ok => Len(buf) < BatchSize
    /\ brOut' = [brOut EXCEPT ![b] = @ \ {u}]
    /\ mergeLog' = IF b = "md" THEN mergeLog ELSE mergeLog (+) SetToBag({u})
    /\ buf' = IF u.ok /\ b # "md" THEN Append(buf, u) ELSE buf
    /\ embedded' = IF u.ok \/ b = "md" THEN embedded ELSE embedded \cup {u}
    /\ UNCHANGED <<pipe, featChunk, featMeta, files, cacheUp, cache, cache0,
                   status, nextItem, brIn, brMid, store, faults, routes,
                   branchLog, enrichLog, batchLog, dupDropped, errDropped,
                   chunkLog, cause, run, collExists, lastWrite, qvars>>

\* code.merge(markdown) feeding then_in_batch: the units of both branches, as
\* they arrive; an Ok chunk joins the batch being filled, an Err goes on
\* downstream.
Merge(b, u) ==
    /\ status = "running"
    /\ u \in brOut[b]
    /\ u.ok => Len(buf) < BatchSize
    /\ brOut' = [brOut EXCEPT ![b] = @ \ {u}]
    /\ mergeLog' = mergeLog (+) SetToBag({u})
    /\ buf' = IF u.ok THEN Append(buf, u) ELSE buf
    /\ embedded' = IF u.ok THEN embedded ELSE embedded \cup {u}
    /\ UNCHANGED <<pipe, featChunk, featMeta, files, cacheUp, cache, cache0,
                   status, nextItem, brIn, brMid, store, faults, routes,
                   branchLog, enrichLog, batchLog, dupDropped, errDropped,
                   chunkLog, cause, run, collExists, lastWrite, qvars>>

\* then_in_batch(.., Embed): a full batch, or the last one when the stream has
\* ended, goes to the embedding model in one call; every chunk gets its vector.
EmbedOk ==
    /\ status = "running"
    /\ buf # <<>>
    /\ BatchReady(buf, UpstreamEnded)
    /\ LET vs == EmbedBatch(buf)
       IN embedded' = embedded \cup {[buf[k] EXCEPT !.vec = vs[k]] : k \in 1..Len(buf)}
    /\ batchLog' = batchLog \cup {[chunks |-> Range(buf), ok |-> TRUE]}
    /\ buf' = <<>>
    /\ UNCHANGED <<pipe, featChunk, featMeta, files, cacheUp, cache, cache0,
                   status, nextItem, brIn, brMid, brOut, store, faults,
                   routes, branchLog, mergeLog, enrichLog, dupDropped,
                   errDropped, chunkLog, cause, run, collExists, lastWrite,
                   qvars>>

\* The embedding call failing: the batch becomes one Err.
EmbedFail ==
    /\ status = "running"
    /\ buf # <<>>
    /\ BatchReady(buf, UpstreamEnded)
    /\ faults < MaxFaults
    /\ faults' = faults + 1
    /\ embedded' = embedded \cup {ErrUnit(buf[1].item, buf[1].idx)}
    /\ batchLog' = batchLog \cup {[chunks |-> Range(buf), ok |-> FALSE]}
    /\ buf' = <<>>
    /\ UNCHANGED <<pipe, featChunk, featMeta, files, cacheUp, cache, cache0,
                   status, nextItem, brIn, brMid, brOut, store, routes,
                   branchLog, mergeLog, enrichLog, dupDropped, errDropped,
                   chunkLog, cause, run, collExists, lastWrite, qvars>>

\* log_errors().filter_errors() (ragas): an Err is logged and dropped; an Ok
\* unit is handed on as the store asks for it.
FilterErrors(u) ==
    /\ status = "running"
    /\ HasFilterErrors(pipe)
    /\ u \in embedded /\ ~u.ok
    /\ embedded' = embedded \ {u}
    /\ errDropped' = errDropped \cup {u}
    /\ UNCHANGED <<pipe, featChunk, featMeta, files, cacheUp, cache, cache0,
                   status, nextItem, brIn, brMid, brOut, buf, store, faults,
                   routes, branchLog, mergeLog, enrichLog, batchLog,
                   dupDropped, chunkLog, cause, run, collExists, lastWrite,
                   qvars>>

\* then_store_with(qdrant), and run() taking the stored node off the stream.
Store(u) ==
    /\ status = "running"
    /\ u \in embedded /\ u.ok
    /\ store' = Upsert(store, u)
    /\ lastWrite' = (PointId(u) :> Point(u)) @@ lastWrite
    /\ embedded' = embedded \ {u}
    /\ UNCHANGED <<pipe, featChunk, featMeta, files, cacheUp, cache, cache0,
                   status, nextItem, brIn, brMid, brOut, buf, faults, routes,
                   branchLog, mergeLog, enrichLog, batchLog, dupDropped,
                   errDropped, chunkLog, cause, run, collExists, qvars>>

\* The upsert failing: the Err is the next thing run() takes off the stream.
StoreFail(u) ==
    /\ status = "running"
    /\ u \in embedded /\ u.ok
    /\ faults < MaxFaults
    /\ faults' = faults + 1
    /\ status' = "aborted"
    /\ cause' = "store"
    /\ UNCHANGED <<pipe, featChunk, featMeta, files, cacheUp, cache, cache0,
                   nextItem, brIn, brMid, brOut, buf, embedded, store,
                   routes, branchLog, mergeLog, enrichLog, batchLog,
                   dupDropped, errDropped, chunkLog, run, collExists,
                   lastWrite, qvars>>

\* run(): an Err that reaches the end of the stream ends the run with it.
RunErr(u) ==
    /\ status = "running"
    /\ ~HasFilterErrors(pipe)
    /\ u \in embedded /\ ~u.ok
    /\ status' = "aborted"
    /\ cause' = "stream"
    /\ UNCHANGED <<pipe, featChunk, featMeta, files, cacheUp, cache, cache0,
                   nextItem, brIn, brMid, brOut, buf, embedded, store,
                   faults, routes, branchLog, mergeLog, enrichLog, batchLog,
                   dupDropped, errDropped, chunkLog, run, collExists,
                   lastWrite, qvars>>

\* run(): the stream has ended; Ok(()).
Finish ==
    /\ status = "running"
    /\ UpstreamEnded /\ buf = <<>> /\ embedded = {}
    /\ status' = "done"
    /\ UNCHANGED <<pipe, featChunk, featMeta, files, cacheUp, cache, cache0,
                   nextItem, brIn, brMid, brOut, buf, embedded, store,
                   faults, routes, branchLog, mergeLog, enrichLog, batchLog,
                   dupDropped, errDropped, chunkLog, cause, run, collExists,
                   lastWrite, qvars>>

\* The files an edit of file i can leave: the same extension, any content.
Edits(f, i) ==
    {[f EXCEPT ![i] = [@ EXCEPT !.len = n]] : n \in Lens(f[i].ext)}

\* The program is run again over the directory, in which one file may have
\* been edited; main of src/src/main.rs goes on from index_markdown to
\* index_code.  The collection and the cache are what the run before left.
Rerun ==
    /\ status \in {"done", "aborted", "setup_failed"}
    /\ run < MaxRuns
    /\ run' = run + 1
    /\ pipe' = IF pipe = "index_markdown" /\ status = "done"
               THEN "index_code" ELSE pipe
    /\ \E i \in ItemIds : files' \in (IF files[i].ok THEN Edits(files, i) ELSE {files})
    /\ cache0' = cache
    /\ status' = "setup"
    /\ nextItem' = 1
    /\ brIn' = [b \in Branches |-> {}]
    /\ brMid' = [b \in Branches |-> {}]
    /\ brOut' = [b \in Branches |-> {}]
    /\ buf' = <<>>
    /\ embedded' = {}
    /\ routes' = [i \in ItemIds |-> [md |-> 0, code |-> 0]]
    /\ branchLog' = EmptyBag /\ mergeLog' = EmptyBag
    /\ enrichLog' = {} /\ batchLog' = {} /\ dupDropped' = {} /\ errDropped' = {}
    /\ chunkLog' = <<>>
    /\ cause' = "none"
    /\ UNCHANGED <<featChunk, featMeta, cacheUp, cache, store, faults,
                   collExists, lastWrite, qvars>>

IndexNext ==
    \/ Setup
    \/ Pull
    \/ \E b \in Branches : \E u \in brIn[b] : Chunk(b, u)
    \/ \E b \in Branches : \E u \in brIn[b] : ChunkFail(b, u)
    \/ \E b \in Branches : \E u \in brMid[b] : Enrich(b, u)
    \/ \E b \in Branches : \E u \in brMid[b] : EnrichFail(b, u)
    \/ \E b \in Branches : \E u \in brOut[b] : Merge(b, u)
    \/ EmbedOk
    \/ EmbedFail
    \/ \E u \in embedded : FilterErrors(u)
    \/ \E u \in embedded : Store(u)
    \/ \E u \in embedded : StoreFail(u)
    \/ \E u \in embedded : RunErr(u)
    \/ Finish


(***************************************************************************)
(* The query side: query() of indexing-and-querying-code (one question,   *)
(* step by step in the source) and query() of ragas (a dataset of          *)
(* questions through query::Pipeline, watched by the Ragas evaluator).     *)
(***************************************************************************)

\* Questions of the dataset.
MaxQuestions == 2
\* Records in the collection that is searched.
MaxDocs == 2
\* The limit of the search (20 in SearchPointsBuilder::new), scaled down.
TopK == 1

QIds == 1..MaxQuestions
Docs == 1..MaxDocs
Progs == {"code_query", "ragas"}

\* The questions one run answers: the one of the command line, or the dataset.
Asked == IF prog = "code_query" THEN {1} ELSE QIds

\* The text of a question, and what the rewriting prompt makes of it.
Original(q) == <<"question", q>>
Subquestions(t) == <<"rewrite", t>>
QueryVector(t) == <<"vector", t>>

\* v.payload.get("content").unwrap().to_string(): the content of one record.
ContentString(d) == <<"content", d>>

\* The searches a collection can answer: the limit's best records, best first
\* (all of them when the collection holds fewer).
Min(a, b) == IF a < b THEN a ELSE b
SearchResults(c, k) ==
    {r \in UNION {[1..n -> c] : n \in {Min(k, Cardinality(c))}} :
        \A i, j \in DOMAIN r : i # j => r[i] # r[j]}

AnswerContextSkipsFirst(r) == [k \in 1..(Len(r) - 1) |-> ContentString(r[k + 1])]

\* The contents of all the found records, in the order found.
AnswerContext(r) == [k \in 1..Len(r) |-> ContentString(r[k])]

\* The completion of the answering prompt.
Completion(pr) == <<"answer", pr>>

GroundTruthNeverRecorded(flag, ds) == ds

\* The answers recorded as ground truth whatever the flag says.
GroundTruthAlwaysRecorded(flag, ds) ==
    [q \in DOMAIN ds |-> [ds[q] EXCEPT !.ground_truth = ds[q].answer]]

\* if record_ground_truth { ragas.record_answers_as_ground_truth().await; }
GroundTruthAfter(flag, ds) ==
    IF flag THEN [q \in DOMAIN ds |-> [ds[q] EXCEPT !.ground_truth = ds[q].answer]]
    ELSE ds

QueryInit ==
    /\ prog \in Progs
    /\ recordGroundTruth \in BOOLEAN
    /\ (prog = "code_query" => ~recordGroundTruth)
    /\ collection \in SUBSET Docs
    /\ truth0 \in [QIds -> {<<"none">>, <<"truth">>}]
    /\ (prog = "code_query" => truth0 = [q \in QIds |-> <<"none">>])
    /\ qpc = "querying"
    /\ qst = [q \in QIds |-> "raw"]
    /\ qtext = [q \in QIds |-> Original(q)]
    /\ qvec = [q \in QIds |-> "none"]
    /\ docs = [q \in QIds |-> <<>>]
    /\ prompt = [q \in QIds |-> "none"]
    /\ answer = [q \in QIds |-> <<"none">>]
    /\ dataset = [q \in QIds |-> [context |-> "none", answer |-> <<"none">>,
                                  ground_truth |-> truth0[q]]]
    /\ qfaults = 0

\* A pipeline that searches with the rewritten text, not with its embedding.
StageAfterSkipsEmbed(st) ==
    CASE st = "raw" -> "subq"
      [] st = "subq" -> "retrieved"
      [] st = "embedded" -> "retrieved"
      [] OTHER -> "answered"

\* The state a question is in after the step that takes it in state st: the
\* steps in the order the pipeline registers them (rewrite, embed, retrieve,
\* answer).
StageAfter(st) ==
    CASE st = "raw" -> "subq"
      [] st = "subq" -> "embedded"
      [] st = "embedded" -> "retrieved"
      [] OTHER -> "answered"

\* openai.prompt(rewrite) / GenerateSubquestions: the first transformer.
TransformQuery(q) ==
    /\ qpc = "querying" /\ q \in Asked
    /\ qst[q] = "raw"
    /\ qtext' = [qtext EXCEPT ![q] = Subquestions(@)]
    /\ qst' = [qst EXCEPT ![q] = StageAfter("raw")]
    /\ UNCHANGED <<prog, recordGroundTruth, collection, truth0, qpc, qvec,
                   docs, prompt, answer, dataset, qfaults, ivars>>

\* openai.embed(rewrite) / query_transformers::Embed: the second transformer.
EmbedQuery(q) ==
    /\ qpc = "querying" /\ q \in Asked
    /\ qst[q] = "subq"
    /\ qvec' = [qvec EXCEPT ![q] = QueryVector(qtext[q])]
    /\ qst' = [qst EXCEPT ![q] = StageAfter("subq")]
    /\ UNCHANGED <<prog, recordGroundTruth, collection, truth0, qpc, qtext,
                   docs, prompt, answer, dataset, qfaults, ivars>>

\* search_points(.., embedded_question, 20) / then_retrieve(qdrant); the
\* evaluator notes the retrieved documents.
Retrieve(q, r) ==
    /\ qpc = "querying" /\ q \in Asked
    /\ qst[q] = "embedded"
    /\ r \in SearchResults(collection, TopK)
    /\ docs' = [docs EXCEPT ![q] = r]
    /\ qst' = [qst EXCEPT ![q] = StageAfter("embedded")]
    /\ dataset' = IF prog = "ragas"
                  THEN [dataset EXCEPT ![q].context = AnswerContext(r)]
                  ELSE dataset
    /\ UNCHANGED <<prog, recordGroundTruth, collection, truth0, qpc, qtext,
                   qvec, prompt, answer, qfaults, ivars>>

\* The answering prompt, from the question as asked and the found context,
\* and its completion / then_answer(Simple); the evaluator notes the answer.
Answer(q) ==
    /\ qpc = "querying" /\ q \in Asked
    /\ qst[q] = "retrieved"
    /\ LET pr == [question |-> Original(q), context |-> AnswerContext(docs[q])]
       IN /\ prompt' = [prompt EXCEPT ![q] = pr]
          /\ answer' = [answer EXCEPT ![q] = Completion(pr)]
          /\ dataset' = IF prog = "ragas"
                        THEN [dataset EXCEPT ![q].answer = Completion(pr)]
                        ELSE dataset
    /\ qst' = [qst EXCEPT ![q] = StageAfter("retrieved")]
    /\ UNCHANGED <<prog, recordGroundTruth, collection, truth0, qpc, qtext,
                   qvec, docs, qfaults, ivars>>

\* Any of the four calls failing for one question.
StageFail(q) ==
    /\ qpc = "querying" /\ q \in Asked
    /\ qst[q] \in {"raw", "subq", "embedded", "retrieved"}
    /\ qfaults < MaxFaults
    /\ qfaults' = qfaults + 1
    /\ qst' = [qst EXCEPT ![q] = "failed"]
    /\ UNCHANGED <<prog, recordGroundTruth, collection, truth0, qpc, qtext,
                   qvec, docs, prompt, answer, dataset, ivars>>

\* Ok(answer) / query_all(..) returned Ok, the answers become ground truth if
\* asked for, and Ok(ragas).
ReturnOk ==
    /\ qpc = "querying"
    /\ \A q \in Asked : qst[q] = "answered"
    /\ dataset' = GroundTruthAfter(recordGroundTruth, dataset)
    /\ qpc' = "ok"
    /\ UNCHANGED <<prog, recordGroundTruth, collection, truth0, qst, qtext,
                   qvec, docs, prompt, answer, qfaults, ivars>>

\* A failed call: the `?` after it returns the error from query().
ReturnErr ==
    /\ qpc = "querying"
    /\ \E q \in Asked : qst[q] = "failed"
    /\ qpc' = "err"
    /\ UNCHANGED <<prog, recordGroundTruth, collection, truth0, qst, qtext,
                   qvec, docs, prompt, answer, dataset, qfaults, ivars>>

QueryNext ==
    \/ \E q \in QIds : TransformQuery(q)
    \/ \E q \in QIds : EmbedQuery(q)
    \/ \E q \in QIds : \E r \in SearchResults(collection, TopK) : Retrieve(q, r)
    \/ \E q \in QIds : Answer(q)
    \/ \E q \in QIds : StageFail(q)
    \/ ReturnOk
    \/ ReturnErr

(* --------------------------- specifications --------------------------- *)

vars == <<ivars, qvars>>

\* One ingestion run; no query is made.
IndexRunInit ==
    /\ IndexInit
    /\ QueryInit
    /\ prog = "ragas" /\ recordGroundTruth = FALSE /\ collection = {}
    /\ truth0 = [q \in QIds |-> <<"none">>]

SpecIndex == IndexRunInit /\ [][IndexNext]_vars

\* Runs of one pipeline over the same directory and the same collection.
RerunNext == IndexNext \/ Rerun

\* The first run finds no collection, an empty cache and readable files, one
\* code file and markdown files; ragas is built with both features.
RerunInit ==
    /\ IndexRunInit
    /\ cache0 = {}
    /\ featChunk = TRUE /\ featMeta = TRUE
    /\ \A i \in ItemIds : files[i].ok /\ files[i].ext = (IF i = 1 THEN "rs" ELSE "md")

SpecRerun == RerunInit /\ [][RerunNext]_vars

\* One query run, against a collection that an earlier run has filled.
QueryRunInit ==
    /\ QueryInit
    /\ IndexInit
    /\ pipe = "ragas" /\ featChunk = TRUE /\ featMeta = TRUE
    /\ files = [i \in ItemIds |-> [ok |-> FALSE, ext |-> "md", len |-> 0]]

SpecQuery == QueryRunInit /\ [][QueryNext]_vars

(***************************************************************************)
(* Properties of an ingestion run (SpecIndex).                             *)
(***************************************************************************)

\* The units that wait between the branches and merge.
AtMerge == brOut["md"] \cup brOut["code"]

\* The units of item i that have passed filter_cached and split_by.
Routed(i) == routes[i].md + routes[i].code

\* Item i has entered split_by: the loader has yielded it (it has one of the
\* extensions) and filter_cached has not dropped it.
PastSplit(i) ==
    /\ nextItem > i
    /\ files[i].ext \in Extensions(pipe)
    /\ \A u \in dupDropped : u.item # i

\* The points stored.
StoredIds == {r.id : r \in store}

\* C1: every item that enters split_by, a load failure included, goes to
\* exactly one of the two branches, and merge emits every unit the branches
\* emitted exactly once: none twice, none lost.
C1_BranchMergeComplete ==
    /\ \A i \in ItemIds : Routed(i) <= 1
    /\ \A i \in ItemIds : PastSplit(i) => Routed(i) = 1
    /\ \A u \in BagToSet(branchLog) :
          /\ CopiesIn(u, branchLog) = 1
          /\ CopiesIn(u, mergeLog) = IF u \in AtMerge THEN 0 ELSE 1
    /\ \A u \in BagToSet(mergeLog) : BagIn(u, branchLog)

\* A load failure went to the markdown branch and through merge, and so did a
\* chunk of a code file.
C1_Witness ==
    /\ HasSplit(pipe)
    /\ \E u, v \in BagToSet(mergeLog) :
          /\ ~u.ok /\ ~files[u.item].ok /\ routes[u.item].md = 1
          /\ v.ok /\ files[v.item].ext = "rs" /\ routes[v.item].code = 1

\* The items whose fingerprint the cache held when the run started.
CachedAtStart == {i \in ItemIds : files[i].ok /\ Fingerprint(i, files[i]) \in cache0}

\* C2: an item whose fingerprint is in the cache when the run starts is dropped
\* by filter_cached: it reaches no branch, no enrichment call and no embedding
\* call is made for it, and no record of it is stored.
C2_CachedItemSkipped ==
    \A i \in CachedAtStart :
        /\ Routed(i) = 0
        /\ i \notin DOMAIN chunkLog
        /\ \A u \in enrichLog : u.item # i
        /\ \A e \in batchLog : \A c \in e.chunks : c.item # i
        /\ \A id \in StoredIds : id[1] # i

\* A finished run that dropped a cached item and stored a chunk of another.
C2_Witness ==
    /\ status = "done"
    /\ \E u \in dupDropped : u.item \in CachedAtStart
    /\ store # {}

\* C3, as claimed: no error of one unit of the stream (a load error, or a
\* failed chunking, enrichment or embedding) ends the run early.
C3_ErrorNeverAborts == cause # "stream"

\* The chunks one successful embedding call has embedded.
EmbeddedOk == UNION {e.chunks : e \in {x \in batchLog : x.ok}}

\* C4, as claimed, for the runs in which no write to the store fails: the store
\* holds records of successfully embedded chunks only, and when the run has
\* ended it holds one record for each of them.
C4_OneRecordPerEmbeddedChunk ==
    /\ \A r \in store : \E c \in EmbeddedOk : PointId(c) = r.id
    /\ (status \in {"done", "aborted"} /\ cause # "store") =>
          \A c \in EmbeddedOk : Cardinality({r \in store : r.id = PointId(c)}) = 1

VectorsOf(c) ==
    {u.vec : u \in {x \in embedded : x.ok /\ PointId(x) = PointId(c)}}
        \cup {r.vec : r \in {x \in store : x.id = PointId(c)}}

\* C6: an embedding call gives every chunk of its batch its own vector, in the
\* order of the batch, or it fails, and then no chunk of the batch is embedded
\* or stored.
C6_BatchAllOrNothing ==
    \A e \in batchLog : \A c \in e.chunks :
        IF e.ok THEN VectorsOf(c) = {Vector(c)} ELSE VectorsOf(c) = {}

\* One call embedded a batch of two chunks, and another call failed.
C6_Witness ==
    /\ \E e \in batchLog : e.ok /\ Cardinality(e.chunks) = 2
    /\ \E e \in batchLog : ~e.ok

\* C10: with the cache server away index_all is not ended by it: no item is
\* taken for seen, only a failed call or an unreadable file ends the run early,
\* and a run that completes has stored every file that has a chunk.
C10_CacheDownFailsOpen ==
    (pipe = "index_all" /\ ~cacheUp) =>
        /\ status # "setup_failed"
        /\ dupDropped = {}
        /\ status = "aborted" => (faults > 0 \/ \E i \in ItemIds : ~files[i].ok)
        /\ status = "done" =>
              \A i \in ItemIds : files[i].len >= 50 => \E id \in StoredIds : id[1] = i

\* A run without the cache server that completed and stored both files.
C10_Witness ==
    /\ pipe = "index_all" /\ ~cacheUp /\ status = "done"
    /\ \A i \in ItemIds : \E id \in StoredIds : id[1] = i

(***************************************************************************)
(* Properties of a query run (SpecQuery).                                  *)
(***************************************************************************)

\* C7, as claimed: when a call fails for one question of the dataset, query()
\* still returns the evaluation, and in it every other question is answered
\* and recorded.
C7_FailureIsolated ==
    (prog = "ragas" /\ qpc # "querying" /\ \E q \in Asked : qst[q] = "failed") =>
        /\ qpc = "ok"
        /\ \A q \in Asked : qst[q] # "failed" =>
              qst[q] = "answered" /\ dataset[q].answer = answer[q]

\* C8: a run with record_ground_truth set returns a dataset in which the ground
\* truth of every question is the answer the pipeline gave to it.
C8_GroundTruthIsAnswer ==
    (prog = "ragas" /\ qpc = "ok" /\ recordGroundTruth) =>
        \A q \in Asked :
            /\ answer[q] # <<"none">>
            /\ dataset[q].ground_truth = answer[q]

\* Such a run, over a dataset that came with a ground truth for a question.
C8_Witness ==
    /\ prog = "ragas" /\ qpc = "ok" /\ recordGroundTruth
    /\ \E q \in Asked : truth0[q] = <<"truth">> /\ Len(docs[q]) > 0

\* C9: the answering prompt of a question is built from the question as it was
\* asked and from the contents of exactly the records its own search returned,
\* and the entry of the evaluator for the question holds that same context.
C9_ExactContext ==
    \A q \in Asked : qst[q] = "answered" =>
        /\ prompt[q].question = Original(q)
        /\ Len(prompt[q].context) = Len(docs[q])
        /\ Range(prompt[q].context) = {ContentString(d) : d \in Range(docs[q])}
        /\ prog = "ragas" => dataset[q].context = prompt[q].context

\* Two questions answered from different records of the collection, each
\* search leaving one record out.
C9_Witness ==
    /\ prog = "ragas"
    /\ \A q \in Asked : qst[q] = "answered" /\ Len(docs[q]) > 0
                           /\ Range(docs[q]) # collection
    /\ \E q, r \in Asked : docs[q] # docs[r]

\* The place of a state in the life of a question.
StageRank(st) ==
    CASE st = "raw" -> 0
      [] st = "subq" -> 1
      [] st = "embedded" -> 2
      [] st = "retrieved" -> 3
      [] st = "answered" -> 4
      [] OTHER -> 5

\* C14: a question goes from raw to rewritten to embedded to retrieved to
\* answered, one step at a time and never back (a failed one stays failed); the
\* vector searched with is the embedding of the rewritten question, and the
\* records are found before the prompt is built.
C14_StagesInOrder ==
    /\ [][\A q \in QIds : qst'[q] # qst[q] =>
              /\ qst[q] \notin {"answered", "failed"}
              /\ qst'[q] = "failed" \/ StageRank(qst'[q]) = StageRank(qst[q]) + 1]_vars
    /\ [](\A q \in QIds :
              /\ StageRank(qst[q]) \in 2..4 =>
                    qvec[q] = QueryVector(Subquestions(Original(q)))
              /\ StageRank(qst[q]) < 3 => docs[q] = <<>>
              /\ StageRank(qst[q]) < 4 => answer[q] = <<"none">>)

\* One question answered from a record found with the embedding of its
\* rewriting, while the other is still being rewritten.
C14_Witness ==
    \E q, r \in Asked :
        /\ qst[q] = "answered" /\ Len(docs[q]) > 0
        /\ qvec[q] = QueryVector(Subquestions(Original(q)))
        /\ qst[r] = "subq"

\* C20: the ground truths of the evaluator are the ones loaded with the dataset
\* as long as query_all has not returned Ok for all questions, and for good in
\* a run without record_ground_truth.
C20_GroundTruthFrame ==
    (qpc # "ok" \/ ~recordGroundTruth) =>
        \A q \in QIds : dataset[q].ground_truth = truth0[q]

\* A run without the flag returned the evaluation: every question answered,
\* the loaded ground truth of one still in place.
C20_Witness ==
    /\ prog = "ragas" /\ qpc = "ok" /\ ~recordGroundTruth
    /\ \E q \in Asked : truth0[q] = <<"truth">> /\ answer[q] # <<"none">>
                           /\ dataset[q].ground_truth = <<"truth">>

(***************************************************************************)
(* More properties of an ingestion run (SpecIndex).                        *)
(***************************************************************************)

\* C16: split_by sends a file that failed to load to the markdown branch,
\* whatever its name, a loaded file named .md or without extension to the
\* markdown branch too, and every other loaded file to the code branch; none
\* is lost there.
C16_LoadErrorToMarkdown ==
    /\ \A e \in {"md", "rs", "none"} : SplitPredicate(FALSE, e)
    /\ SplitPredicate(TRUE, "md") /\ SplitPredicate(TRUE, "none")
    /\ ~SplitPredicate(TRUE, "rs")
    /\ HasSplit(pipe) =>
          \A i \in ItemIds : PastSplit(i) =>
              routes[i] = IF ~files[i].ok \/ files[i].ext \in {"md", "none"}
                          THEN [md |-> 1, code |-> 0]
                          ELSE [md |-> 0, code |-> 1]

\* An unreadable .rs file went to the markdown branch and a readable one to
\* the code branch.
C16_Witness ==
    /\ HasSplit(pipe)
    /\ \E i, j \in ItemIds :
          /\ ~files[i].ok /\ files[i].ext = "rs" /\ routes[i] = [md |-> 1, code |-> 0]
          /\ files[j].ok /\ files[j].ext = "rs" /\ routes[j] = [md |-> 0, code |-> 1]

\* The files this run has written to the cache.
NewlySeen ==
    {i \in ItemIds : files[i].ok /\ Fingerprint(i, files[i]) \in cache \ cache0}

\* C15, as claimed: when the run has ended, a file it has recorded as seen is
\* one whose chunks it has all stored.
C15_SeenOnlyAfterStored ==
    status \in {"done", "aborted"} =>
        \A i \in NewlySeen :
            /\ i \in DOMAIN chunkLog
            /\ \A c \in chunkLog[i] : PointId(c) \in StoredIds

\* C17, as claimed, for the runs in which no write to the store fails: when the
\* run has returned, every file has been read, no unit is on its way through a
\* branch, no chunk waits in the batch and none waits to be stored.
C17_ReturnsWithNothingInFlight ==
    (status \in {"done", "aborted"} /\ cause # "store") =>
        /\ UpstreamEnded
        /\ buf = <<>>
        /\ embedded \subseteq {u \in embedded : ~u.ok}

\* The units that have left the enrichment stage of the branch of item i.
LeftBranchOf(i) ==
    {v \in BagToSet(branchLog) : routes[v.item] = routes[i]}

\* C19, as claimed: a unit leaves the enrichment stage of its branch after the
\* units of the files the loader yielded before its file, never before them.
C19_BranchOrderPreserved ==
    [][\A u \in BagToSet(branchLog') \ BagToSet(branchLog) :
          \A v \in LeftBranchOf(u.item) : v.item <= u.item]_vars

\* The batches handed to the embedder that hold fewer than batch_size chunks.
ShortBatches == {e \in batchLog : Cardinality(e.chunks) < BatchSize}

\* C11: a batch handed to the embedder holds 1 to batch_size chunks; one that
\* holds fewer was handed on after the stream had ended, and is the last; a
\* chunk that has reached the stage waits in the batch being filled or is in
\* exactly one batch handed on, and none waits when the run has completed.
C11_BatchDispatch ==
    /\ \A e \in batchLog :
          Cardinality(e.chunks) >= 1 /\ Cardinality(e.chunks) <= BatchSize
    /\ Cardinality(ShortBatches) <= 1
    /\ ShortBatches # {} => UpstreamEnded /\ buf = <<>>
    /\ Len(buf) <= BatchSize
    /\ \A u \in BagToSet(mergeLog) : u.ok =>
          Cardinality({e \in batchLog : u \in e.chunks})
              = IF u \in Range(buf) THEN 0 ELSE 1
    /\ \A e \in batchLog : \A u \in e.chunks : BagIn(u, mergeLog)
    /\ status = "done" => buf = <<>>

\* A completed run that handed on a full batch and then a last one of fewer
\* chunks.
C11_Witness ==
    /\ status = "done"
    /\ ShortBatches # {}
    /\ \E e \in batchLog : Cardinality(e.chunks) = BatchSize

(***************************************************************************)
(* Properties of runs that follow one another (SpecRerun).                 *)
(***************************************************************************)

\* C12: whatever was written, in this run or in one before it, the collection
\* holds one record for every point id written to it, and it is the record
\* written last under that id.
C12_IdempotentUpsert ==
    /\ \A r1, r2 \in store : r1.id = r2.id => r1 = r2
    /\ \A r \in store : r.id \in DOMAIN lastWrite
    /\ \A id \in DOMAIN lastWrite : {r \in store : r.id = id} = {lastWrite[id]}

\* A second run over a file that had two chunks in the first run and was cut
\* down to one since: its first point now holds the new chunk.
C12_Witness ==
    /\ run = 2 /\ ~HasForceDelete(pipe)
    /\ \E i \in ItemIds : \E r1, r2 \in store :
          /\ files[i].len = 300
          /\ r1.id = <<i, 1>> /\ r1.len = 300
          /\ r2.id = <<i, 2>>

\* C13: main of ragas gets past the force delete whether the collection exists
\* or not, and what the collection holds afterwards is what this run's
\* index_all has stored.
C13_ForceDeleteIdempotent ==
    pipe = "ragas" =>
        /\ status # "setup_failed"
        /\ status # "setup" =>
              \A r \in store : \E c \in EmbeddedOk : r = Point([c EXCEPT !.vec = Vector(c)])

\* The first run deleted a collection that did not exist, the second one the
\* collection the first had filled, and stored into the new one.
C13_Witness ==
    /\ pipe = "ragas" /\ run = 2 /\ collExists
    /\ status = "done" /\ store # {}

====
